---- MODULE Spec2Model ----
(***************************************************************************)
(* A model of pinion: extension methods on Option, Result, the primitive   *)
(* integers and raw pointers.                                              *)
(*                                                                         *)
(* Every method is an operator computed the way its body computes it.  A   *)
(* method taking `&mut self` yields the container after the call together  *)
(* with what it returned and how often it invoked its closure.  A caller   *)
(* process applies the methods to a container it owns (opt, res) or to an  *)
(* input drawn when it starts (num, ptr), and records the call it made in  *)
(* `last`.                                                                 *)
(***************************************************************************)
EXTENDS Integers, Sequences, FiniteSets, TLC

VARIABLES
    opt,    \* the caller's Option<T>
    res,    \* the caller's Result<T, E>
    num,    \* the integer a numeric method is called on: [ty, v]
    ptr,    \* the raw pointer non_null is called on: [kind, addr]
    pc,     \* the caller's position: "call" / "returned" around its one call on
            \* num or ptr, "run" while it calls methods on opt or res
    last    \* the call made last: [op, pre, arg, ret, calls]

vars == <<opt, res, num, ptr, pc, last>>

(***************************************************************************)
(* Bounds of the model.                                                    *)
(***************************************************************************)
\* Payloads of type T are <<"T", 0>> .. <<"T", MaxVal>>.
MaxVal == 2
\* Payloads of type E are <<"E", 0>> .. <<"E", MaxErr>>.
MaxErr == 1
\* Replacement values of type R are <<"R", 0>> .. <<"R", MaxRepl>>.
MaxRepl == 1

(***************************************************************************)
(* Values.  A payload carries its type, so that a T is never equal to an   *)
(* E or an R holding the same number.  Unit, (), is the empty tuple.       *)
(***************************************************************************)
Values == {<<"T", n>> : n \in 0..MaxVal}
Errors == {<<"E", n>> : n \in 0..MaxErr}
Repls == {<<"R", n>> : n \in 0..MaxRepl}
Unit == <<>>

\* Option<X>
None == [tag |-> "None"]
Some(x) == [tag |-> "Some", val |-> x]
\* Result<X, Y>
Ok(x) == [tag |-> "Ok", val |-> x]
Err(e) == [tag |-> "Err", val |-> e]

Options == {None} \cup {Some(v) : v \in Values}
Results == {Ok(v) : v \in Values} \cup {Err(e) : e \in Errors}

\* <T as Default>::default(), for the integer payloads of the model
DefaultValue == <<"T", 0>>

(***************************************************************************)
(* Closures.  Calling one is counted by the method that calls it.          *)
(***************************************************************************)
\* impl FnOnce() -> T: a producer yields the value it was built with.
Producers == [yield : Values]
CallProducer(f) == f.yield

\* impl FnOnce(&mut X) -> R: an updater u overwrites the payload x it is
\* given with u[x] and returns the payload it found.
Updaters == [Values -> Values]
ErrUpdaters == [Errors -> Errors]
CallUpdater(u, x) == [new |-> u[x], ret |-> x]

\* impl FnOnce(&T) -> Result<bool, E>
PredOutcomes == {Ok(TRUE), Ok(FALSE)} \cup {Err(e) : e \in Errors}
Predicates == [Values -> PredOutcomes]
CallPredicate(p, x) == p[x]

(***************************************************************************)
(* bool::then_some                                                         *)
(***************************************************************************)
then_some(b, x) == IF b THEN Some(x) ELSE None

(***************************************************************************)
(* OptionExt (fallible.rs).  self is the option before the call.           *)
(***************************************************************************)
\* populate as a plain assignment: the guard on None is lost.
populate_overwrite(self, value) ==
    [self |-> Some(value), ret |-> Unit, calls |-> 0]

\* fn populate(&mut self, value: T)
populate(self, value) ==
    IF self = None
    THEN [self |-> Some(value), ret |-> Unit, calls |-> 0]
    ELSE [self |-> self, ret |-> Unit, calls |-> 0]

\* populate_with evaluating its producer before testing the option.
populate_with_eager(self, f) ==
    LET value == CallProducer(f)
    IN  IF self = None
        THEN [self |-> Some(value), ret |-> Unit, calls |-> 1]
        ELSE [self |-> self, ret |-> Unit, calls |-> 1]

\* fn populate_with(&mut self, f: impl FnOnce() -> T)
populate_with(self, f) ==
    IF self = None
    THEN [self |-> Some(CallProducer(f)), ret |-> Unit, calls |-> 1]
    ELSE [self |-> self, ret |-> Unit, calls |-> 0]

\* fn populate_default(&mut self): self.populate_with(T::default)
populate_default(self) == populate_with(self, [yield |-> DefaultValue])

\* update written as self.take().map(..): the option is left empty.
OptionUpdate_take(self, update) ==
    IF self.tag = "Some"
    THEN LET c == CallUpdater(update, self.val)
         IN  [self |-> None, ret |-> Some(c.ret), calls |-> 1]
    ELSE [self |-> self, ret |-> None, calls |-> 0]

\* fn update<R>(&mut self, update: impl FnOnce(&mut T) -> R) -> Option<R>
OptionUpdate(self, update) ==
    IF self.tag = "Some"
    THEN LET c == CallUpdater(update, self.val)
         IN  [self |-> Some(c.new), ret |-> Some(c.ret), calls |-> 1]
    ELSE [self |-> self, ret |-> None, calls |-> 0]

\* try_filter with the predicate's error treated as false.
try_filter_swallow(self, predicate) ==
    IF self.tag = "Some"
    THEN LET g == CallPredicate(predicate, self.val)
         IN  IF g.tag = "Ok" /\ g.val
             THEN [ret |-> Ok(Some(self.val)), calls |-> 1]
             ELSE [ret |-> Ok(None), calls |-> 1]
    ELSE [ret |-> Ok(None), calls |-> 0]

\* fn try_filter<E>(self, predicate) -> Result<Option<T>, E>
\* The match guard `predicate(&value)?` runs only in the Some arm; its `?`
\* returns Err(e) from the method, and a false guard falls to the `_` arm.
try_filter(self, predicate) ==
    IF self.tag = "Some"
    THEN LET g == CallPredicate(predicate, self.val)
         IN  IF g.tag = "Err"
             THEN [ret |-> Err(g.val), calls |-> 1]
             ELSE IF g.val
                  THEN [ret |-> Ok(Some(self.val)), calls |-> 1]
                  ELSE [ret |-> Ok(None), calls |-> 1]
    ELSE [ret |-> Ok(None), calls |-> 0]

(***************************************************************************)
(* The caller of the Option methods.                                       *)
(***************************************************************************)
NoCall == [op |-> "none", pre |-> Unit, arg |-> Unit, ret |-> Unit, calls |-> 0]
Idle == <<"idle">>

Called(op, pre, arg, r) ==
    [op |-> op, pre |-> pre, arg |-> arg, ret |-> r.ret, calls |-> r.calls]

CallPopulate(value) ==
    LET r == populate(opt, value)
    IN  /\ opt' = r.self
        /\ last' = Called("populate", opt, value, r)
        /\ UNCHANGED <<res, num, ptr, pc>>

CallPopulateWith(f) ==
    LET r == populate_with(opt, f)
    IN  /\ opt' = r.self
        /\ last' = Called("populate_with", opt, f, r)
        /\ UNCHANGED <<res, num, ptr, pc>>

CallPopulateDefault ==
    LET r == populate_default(opt)
    IN  /\ opt' = r.self
        /\ last' = Called("populate_default", opt, Unit, r)
        /\ UNCHANGED <<res, num, ptr, pc>>

CallOptionUpdate(u) ==
    LET r == OptionUpdate(opt, u)
    IN  /\ opt' = r.self
        /\ last' = Called("update", opt, u, r)
        /\ UNCHANGED <<res, num, ptr, pc>>

\* try_filter takes self by value: the caller passes a copy of its option.
CallTryFilter(p) ==
    LET r == try_filter(opt, p)
    IN  /\ last' = Called("try_filter", opt, p, r)
        /\ UNCHANGED <<opt, res, num, ptr, pc>>

InitOpt ==
    /\ opt \in Options
    /\ res = Idle /\ num = Idle /\ ptr = Idle /\ pc = "run"
    /\ last = NoCall

NextOpt ==
    \/ \E value \in Values : CallPopulate(value)
    \/ \E f \in Producers : CallPopulateWith(f)
    \/ CallPopulateDefault
    \/ \E u \in Updaters : CallOptionUpdate(u)
    \/ \E p \in Predicates : CallTryFilter(p)

SpecOpt == InitOpt /\ [][NextOpt]_vars

(***************************************************************************)
(* ResultExt (fallible.rs).  self is the result before the call.           *)
(***************************************************************************)
\* supersede_with without the `?`: a failure is replaced too.
supersede_with_always(self, value) == Ok(value)

\* fn supersede_with<R>(self, value: R) -> Result<R, E>:  self?; Ok(value)
\* `?` returns Err(From::from(e)) from the method on Err(e), where From is
\* the reflexive impl for E, and drops the payload of an Ok.
supersede_with(self, value) ==
    IF self.tag = "Err" THEN Err(self.val) ELSE Ok(value)

\* fn flick(self) -> Result<(), E>: self.supersede_with(())
flick(self) == supersede_with(self, Unit)

\* fn update<R>(&mut self, update: impl FnOnce(&mut T) -> R) -> Option<R>
ResultUpdate(self, update) ==
    IF self.tag = "Ok"
    THEN LET c == CallUpdater(update, self.val)
         IN  [self |-> Ok(c.new), ret |-> Some(c.ret), calls |-> 1]
    ELSE [self |-> self, ret |-> None, calls |-> 0]

\* update_err matching on a copy of self: the updater's write is lost.
update_err_on_copy(self, update) ==
    IF self.tag = "Err"
    THEN LET c == CallUpdater(update, self.val)
         IN  [self |-> self, ret |-> Some(c.ret), calls |-> 1]
    ELSE [self |-> self, ret |-> None, calls |-> 0]

\* fn update_err<R>(&mut self, update: impl FnOnce(&mut E) -> R) -> Option<R>
update_err(self, update) ==
    IF self.tag = "Err"
    THEN LET c == CallUpdater(update, self.val)
         IN  [self |-> Err(c.new), ret |-> Some(c.ret), calls |-> 1]
    ELSE [self |-> self, ret |-> None, calls |-> 0]

(***************************************************************************)
(* The caller of the Result methods.  flick and supersede_with take self   *)
(* by value: the caller passes a copy of its result.                       *)
(***************************************************************************)
CallFlick ==
    /\ last' = Called("flick", res, Unit, [ret |-> flick(res), calls |-> 0])
    /\ UNCHANGED <<opt, res, num, ptr, pc>>

CallSupersedeWith(value) ==
    /\ last' = Called("supersede_with", res, value,
                      [ret |-> supersede_with(res, value), calls |-> 0])
    /\ UNCHANGED <<opt, res, num, ptr, pc>>

CallResultUpdate(u) ==
    LET r == ResultUpdate(res, u)
    IN  /\ res' = r.self
        /\ last' = Called("update", res, u, r)
        /\ UNCHANGED <<opt, num, ptr, pc>>

CallUpdateErr(u) ==
    LET r == update_err(res, u)
    IN  /\ res' = r.self
        /\ last' = Called("update_err", res, u, r)
        /\ UNCHANGED <<opt, num, ptr, pc>>

InitRes ==
    /\ res \in Results
    /\ opt = Idle /\ num = Idle /\ ptr = Idle /\ pc = "run"
    /\ last = NoCall

NextRes ==
    \/ CallFlick
    \/ \E value \in Repls : CallSupersedeWith(value)
    \/ \E u \in Updaters : CallResultUpdate(u)
    \/ \E u \in ErrUpdaters : CallUpdateErr(u)

SpecRes == InitRes /\ [][NextRes]_vars

(***************************************************************************)
(* The primitive integers (num.rs).  nums! implements NumExt for i8 u8 i16 *)
(* u16 i32 u32 i64 u64 isize usize with one body; the model instantiates   *)
(* it for the types whose whole range the model checker's integers hold.   *)
(***************************************************************************)
IntTypes == {"i8", "u8", "i16", "u16", "i32"}
Signed(ty) == ty \in {"i8", "i16", "i32"}
Bits(ty) == CASE ty \in {"i8", "u8"} -> 8
              [] ty \in {"i16", "u16"} -> 16
              [] ty = "i32" -> 32

RECURSIVE Pow2(_)
Pow2(n) == IF n = 0 THEN 1 ELSE 2 * Pow2(n - 1)

\* <ty>::MAX and <ty>::MIN
MaxOf(ty) == IF Signed(ty) THEN (Pow2(Bits(ty) - 2) - 1) * 2 + 1
             ELSE Pow2(Bits(ty)) - 1
MinOf(ty) == IF Signed(ty) THEN (-MaxOf(ty)) - 1 ELSE 0

\* The inputs: every value of an 8-bit type; of a wider type the values
\* within Edge of MIN and of MAX and within Near of zero.
Edge == 2
Near == 20
NumVals(ty) ==
    IF Bits(ty) = 8
    THEN MinOf(ty)..MaxOf(ty)
    ELSE {v \in {MinOf(ty) + k : k \in 0..Edge} \cup ((-Near)..Near)
                \cup {MaxOf(ty) - k : k \in 0..Edge} :
            MinOf(ty) <= v /\ v <= MaxOf(ty)}

Abs(a) == IF a < 0 THEN -a ELSE a

\* Whether `a % b` panics in type ty: a zero divisor, or MIN % -1.
RemPanics(ty, a, b) == b = 0 \/ (Signed(ty) /\ a = MinOf(ty) /\ b = -1)

\* `a % b`, the remainder of the division truncated towards zero: it has
\* the sign of a.  (MIN has no absolute value in ty; its remainder is that
\* of MIN + |b|.)
Rem(ty, a, b) ==
    LET m == Abs(b)
        a1 == IF Signed(ty) /\ a = MinOf(ty) THEN a + m ELSE a
        r == Abs(a1) % m
    IN  IF a1 < 0 THEN -r ELSE r

\* fn is_even(&self) -> bool { self % 2 == 0 }
is_even(ty, self) == Rem(ty, self, 2) = 0

\* is_odd as `self % 2 == 1`, which a negative odd number fails.
is_odd_rem_one(ty, self) == Rem(ty, self, 2) = 1

\* fn is_odd(&self) -> bool { !self.is_even() }
is_odd(ty, self) == ~is_even(ty, self)

\* fn even(self) -> Option<Self> { self.is_even().then_some(self) }
even(ty, self) == then_some(is_even(ty, self), self)

\* fn odd(self) -> Option<Self> { self.is_odd().then_some(self) }
odd(ty, self) == then_some(is_odd(ty, self), self)

(***************************************************************************)
(* Primality.  A u64 is four 16-bit limbs, least significant first.        *)
(***************************************************************************)
Limb == 65536

\* `self as u64`: a non-negative value keeps its bits and is zero-extended;
\* a negative one is sign-extended, which is the complement of -self - 1.
as_u64(ty, self) ==
    LET n == IF self >= 0 THEN self ELSE (-self) - 1
        lo == <<n % Limb, (n \div Limb) % Limb, (n \div Limb) \div Limb, 0>>
    IN  IF self >= 0 THEN lo
        ELSE [i \in 1..4 |-> (Limb - 1) - lo[i]]

\* Whether a u64 is a number the model checker's integers hold, and the
\* number it is then.
U64Small(x) == x[3] = 0 /\ x[4] = 0 /\ x[2] < Limb \div 2
U64Value(x) == x[1] + Limb * x[2]

\* n is a prime number: n > 1 has no divisor d with 1 < d < n.  A
\* composite n below 2^31 has a divisor not above 46340.
IsPrimeNat(n) ==
    /\ n > 1
    /\ \A d \in 2..(IF n - 1 < 46340 THEN n - 1 ELSE 46340) : n % d # 0

\* primal::is_prime(n: u64) -> bool, by its contract: the answers it can
\* give.  Of a number the model cannot hold, either answer.
primal_is_prime(x) ==
    IF U64Small(x) THEN {IsPrimeNat(U64Value(x))} ELSE BOOLEAN

\* is_prime without the `*self > 1` guard.
is_prime_unguarded(ty, self) ==
    {[ret |-> b, oracle |-> <<[arg |-> as_u64(ty, self), ans |-> b]>>] :
        b \in primal_is_prime(as_u64(ty, self))}

\* fn is_prime(&self) -> bool { *self > 1 && primal::is_prime(*self as u64) }
\* The outcomes: the value returned and the calls of the oracle, each with
\* its argument and its answer.  && evaluates its right operand only when
\* the left is true.
is_prime(ty, self) ==
    IF self > 1
    THEN {[ret |-> b, oracle |-> <<[arg |-> as_u64(ty, self), ans |-> b]>>] :
            b \in primal_is_prime(as_u64(ty, self))}
    ELSE {[ret |-> FALSE, oracle |-> <<>>]}

\* fn prime(self) -> Option<Self> { self.is_prime().then_some(self) }
prime(ty, self) ==
    {[ret |-> then_some(o.ret, self), oracle |-> o.oracle] :
        o \in is_prime(ty, self)}

(***************************************************************************)
(* Ranges.  A RangeBounds<Self> is its two bounds.                         *)
(***************************************************************************)
Included(x) == [kind |-> "Included", at |-> x]
Excluded(x) == [kind |-> "Excluded", at |-> x]
Unbounded == [kind |-> "Unbounded"]

\* The bounds a range is built from: the ends of the type and a few points
\* between them.
BoundPoints(ty) ==
    {x \in {MinOf(ty), -1, 0, 5, 10, MaxOf(ty)} : MinOf(ty) <= x /\ x <= MaxOf(ty)}
Bounds(ty) ==
    {Unbounded} \cup {Included(x) : x \in BoundPoints(ty)}
                \cup {Excluded(x) : x \in BoundPoints(ty)}
Ranges(ty) == [start : Bounds(ty), end : Bounds(ty)]

\* RangeBounds::contains(&self, item)
contains(range, item) ==
    /\ CASE range.start.kind = "Included" -> range.start.at <= item
         [] range.start.kind = "Excluded" -> range.start.at < item
         [] range.start.kind = "Unbounded" -> TRUE
    /\ CASE range.end.kind = "Included" -> item <= range.end.at
         [] range.end.kind = "Excluded" -> item < range.end.at
         [] range.end.kind = "Unbounded" -> TRUE

\* in_range comparing against the bounds' values alone, as if both were
\* inclusive.
in_range_inclusive(self, range) ==
    then_some(/\ range.start.kind # "Unbounded" => range.start.at <= self
              /\ range.end.kind # "Unbounded" => self <= range.end.at,
              self)

\* fn in_range<R: RangeBounds<Self>>(self, range: R) -> Option<Self>
in_range(self, range) == then_some(contains(range, self), self)

(***************************************************************************)
(* The caller of the numeric methods: one call on the number it drew.      *)
(***************************************************************************)
Returned(op, arg, ret, panic, oracle) ==
    [op |-> op, pre |-> num, arg |-> arg, ret |-> ret, calls |-> 0,
     panic |-> panic, oracle |-> oracle]

NumCall(op, arg, ret, panic, oracle) ==
    /\ pc' = "returned"
    /\ last' = Returned(op, arg, ret, panic, oracle)
    /\ UNCHANGED <<opt, res, num, ptr>>

CallIsEven ==
    /\ pc = "call"
    /\ NumCall("is_even", Unit, is_even(num.ty, num.v),
               RemPanics(num.ty, num.v, 2), <<>>)

CallIsOdd ==
    /\ pc = "call"
    /\ NumCall("is_odd", Unit, is_odd(num.ty, num.v),
               RemPanics(num.ty, num.v, 2), <<>>)

CallEven ==
    /\ pc = "call"
    /\ NumCall("even", Unit, even(num.ty, num.v),
               RemPanics(num.ty, num.v, 2), <<>>)

CallOdd ==
    /\ pc = "call"
    /\ NumCall("odd", Unit, odd(num.ty, num.v),
               RemPanics(num.ty, num.v, 2), <<>>)

CallIsPrime ==
    /\ pc = "call"
    /\ \E o \in is_prime(num.ty, num.v) :
          NumCall("is_prime", Unit, o.ret, FALSE, o.oracle)

CallPrime ==
    /\ pc = "call"
    /\ \E o \in prime(num.ty, num.v) :
          NumCall("prime", Unit, o.ret, FALSE, o.oracle)

CallInRange(range) ==
    /\ pc = "call"
    /\ NumCall("in_range", range, in_range(num.v, range), FALSE, <<>>)

InitNum ==
    /\ \E ty \in IntTypes : \E v \in NumVals(ty) : num = [ty |-> ty, v |-> v]
    /\ opt = Idle /\ res = Idle /\ ptr = Idle /\ pc = "call"
    /\ last = NoCall

NextNum ==
    \/ CallIsEven
    \/ CallIsOdd
    \/ CallEven
    \/ CallOdd
    \/ CallIsPrime
    \/ CallPrime
    \/ pc = "call" /\ \E range \in Ranges(num.ty) : CallInRange(range)

SpecNum == InitNum /\ [][NextNum]_vars

(***************************************************************************)
(* Raw pointers (ptr.rs).  A pointer is its address; address 0 is null.    *)
(***************************************************************************)
MaxAddr == 63
PtrKinds == {"const", "mut"}
Pointers == [kind : PtrKinds, addr : 0..MaxAddr]

\* <*const T>::is_null, <*mut T>::is_null
is_null(p) == p.addr = 0

\* impl<T> PtrExt for *const T: self.is_null().then_some(self)
non_null_const(self) == then_some(is_null(self), self)

\* impl<T> PtrExt for *mut T: self.is_null().then_some(self)
non_null_mut(self) == then_some(is_null(self), self)

CallNonNullConst ==
    /\ pc = "call" /\ ptr.kind = "const"
    /\ pc' = "returned"
    /\ last' = [op |-> "non_null", pre |-> ptr, arg |-> Unit,
                ret |-> non_null_const(ptr), calls |-> 0]
    /\ UNCHANGED <<opt, res, num, ptr>>

CallNonNullMut ==
    /\ pc = "call" /\ ptr.kind = "mut"
    /\ pc' = "returned"
    /\ last' = [op |-> "non_null", pre |-> ptr, arg |-> Unit,
                ret |-> non_null_mut(ptr), calls |-> 0]
    /\ UNCHANGED <<opt, res, num, ptr>>

InitPtr ==
    /\ ptr \in Pointers
    /\ opt = Idle /\ res = Idle /\ num = Idle /\ pc = "call"
    /\ last = NoCall

NextPtr ==
    \/ CallNonNullConst
    \/ CallNonNullMut

SpecPtr == InitPtr /\ [][NextPtr]_vars

(***************************************************************************)
(* Properties.                                                             *)
(***************************************************************************)

\* C1 (SpecPtr): p.non_null() is None when p is null and Some(p) when p is
\* not null, for *const T and *mut T alike.
C1_NonNullContract ==
    last.op = "non_null" =>
        last.ret = (IF is_null(last.pre) THEN None ELSE Some(last.pre))

\* C2 (SpecOpt): after o.populate(v), an o that was None is Some(v), and an
\* o that was Some(t) is still Some(t).
C2_Populate ==
    last.op = "populate" =>
        /\ opt.tag = "Some"
        /\ last.pre = None => opt = Some(last.arg)
        /\ last.pre # None => opt = last.pre

\* populate on a present option, given a value other than the one held
C2_Witness ==
    /\ last.op = "populate"
    /\ last.pre.tag = "Some"
    /\ last.arg # last.pre.val

\* C3 (SpecOpt): o.populate_with(f) calls f no times and leaves o as it was
\* when o is present, and calls f once and leaves o holding f's result when
\* o is None; populate_default does so with T::default as f.
C3_PopulateWith ==
    /\ last.op = "populate_with" =>
          IF last.pre = None
          THEN last.calls = 1 /\ opt = Some(CallProducer(last.arg))
          ELSE last.calls = 0 /\ opt = last.pre
    /\ last.op = "populate_default" =>
          IF last.pre = None
          THEN last.calls = 1 /\ opt = Some(DefaultValue)
          ELSE last.calls = 0 /\ opt = last.pre

\* populate_with on a present option, with a producer of another value
C3_Witness ==
    /\ last.op = "populate_with"
    /\ last.pre.tag = "Some"
    /\ CallProducer(last.arg) # last.pre.val

\* C4 (SpecOpt): try_filter on None is Ok(None) without a call of the
\* predicate; on Some(t) the predicate is called once on t and the result
\* is Ok(Some(t)), Ok(None) or Err(e) as it answers Ok(true), Ok(false) or
\* Err(e).
C4_TryFilter ==
    last.op = "try_filter" =>
        IF last.pre = None
        THEN last.calls = 0 /\ last.ret = Ok(None)
        ELSE LET t == last.pre.val
                 answer == last.arg[t]
             IN  /\ last.calls = 1
                 /\ answer = Ok(TRUE) => last.ret = Ok(Some(t))
                 /\ answer = Ok(FALSE) => last.ret = Ok(None)
                 /\ answer.tag = "Err" => last.ret = Err(answer.val)

\* try_filter on a present option whose predicate fails
C4_Witness ==
    /\ last.op = "try_filter"
    /\ last.pre.tag = "Some"
    /\ last.arg[last.pre.val].tag = "Err"
    /\ last.ret.tag = "Err"

\* C5 (SpecRes): x.supersede_with(r) is Ok(r) when x is Ok, whatever x
\* held, and Err(e) when x is Err(e); flick is supersede_with(()).
C5_Supersede ==
    /\ last.op = "supersede_with" =>
          /\ last.pre.tag = "Ok" => last.ret = Ok(last.arg)
          /\ last.pre.tag = "Err" => last.ret = last.pre
    /\ last.op = "flick" =>
          /\ last.pre.tag = "Ok" => last.ret = Ok(Unit)
          /\ last.pre.tag = "Err" => last.ret = last.pre

\* flick on a failure
C5_Witness ==
    /\ last.op = "flick"
    /\ last.pre.tag = "Err"
    /\ last.ret = Err(last.pre.val)

\* What update and update_err return, how often they call the updater, and
\* the result they leave.
C6_Calls ==
    /\ last.op = "update" =>
          IF last.pre.tag = "Ok"
          THEN LET c == CallUpdater(last.arg, last.pre.val)
               IN  last.calls = 1 /\ last.ret = Some(c.ret) /\ res = Ok(c.new)
          ELSE last.calls = 0 /\ last.ret = None /\ res = last.pre
    /\ last.op = "update_err" =>
          IF last.pre.tag = "Err"
          THEN LET c == CallUpdater(last.arg, last.pre.val)
               IN  last.calls = 1 /\ last.ret = Some(c.ret) /\ res = Err(c.new)
          ELSE last.calls = 0 /\ last.ret = None /\ res = last.pre

\* C6 (SpecRes): x.update(u) calls u once on the success payload and
\* returns Some of its result when x is Ok, and returns None without a call
\* when x is Err, leaving x as it was; update_err is the same on the failure
\* payload; and no call changes whether x is Ok or Err.
C6_Update == []C6_Calls /\ [][res'.tag = res.tag]_vars

\* update_err on a failure, with an updater that changes the payload
C6_Witness ==
    /\ last.op = "update_err"
    /\ last.pre.tag = "Err"
    /\ res.tag = "Err"
    /\ res # last.pre

\* Whether 2 divides v
DivisibleBy2(v) == 2 * (v \div 2) = v

\* C7 (SpecNum): is_even(v) = !is_odd(v); is_even(v) iff 2 divides v;
\* even(v) is Some(v) iff is_even(v) and odd(v) is Some(v) iff is_odd(v), so
\* that exactly one of them is present; and no call panics.
C7_Parity ==
    LET ty == num.ty
        v == num.v
    IN  /\ is_even(ty, v) = ~is_odd(ty, v)
        /\ is_even(ty, v) = DivisibleBy2(v)
        /\ (even(ty, v) = None) # (odd(ty, v) = None)
        /\ last.op = "is_even" => last.ret = DivisibleBy2(v) /\ ~last.panic
        /\ last.op = "is_odd" => last.ret = ~DivisibleBy2(v) /\ ~last.panic
        /\ last.op = "even" =>
              last.ret = (IF DivisibleBy2(v) THEN Some(v) ELSE None) /\ ~last.panic
        /\ last.op = "odd" =>
              last.ret = (IF DivisibleBy2(v) THEN None ELSE Some(v)) /\ ~last.panic

\* odd on the negative odd number next to i32::MIN
C7_Witness ==
    /\ last.op = "odd"
    /\ num = [ty |-> "i32", v |-> MinOf("i32") + 1]
    /\ last.ret = Some(num.v)

\* C8 (SpecNum): is_prime(v) is true iff v > 1 and the oracle, asked about
\* v as u64, answers prime; for v <= 1 it is false and the oracle is not
\* asked; for v > 1 the u64 is the number v, so that is_prime(v) is whether
\* v is a prime number; and prime(v) is Some(v) iff is_prime(v).
C8_Prime ==
    LET v == num.v
        asked == Len(last.oracle) = 1
    IN  last.op \in {"is_prime", "prime"} =>
            /\ v <= 1 => last.oracle = <<>>
            /\ v > 1 => /\ asked
                        /\ U64Small(last.oracle[1].arg)
                        /\ U64Value(last.oracle[1].arg) = v
            /\ last.op = "is_prime" =>
                  /\ last.ret = (v > 1 /\ asked /\ last.oracle[1].ans)
                  /\ last.ret = IsPrimeNat(v)
                  /\ v \in {2, 17} => last.ret
                  /\ v \in {0, 1, 18} => ~last.ret
            /\ last.op = "prime" =>
                  last.ret = (IF IsPrimeNat(v) THEN Some(v) ELSE None)

\* is_prime on a negative number
C8_Witness ==
    /\ last.op = "is_prime"
    /\ num.v < 0
    /\ last.ret = FALSE
    /\ last.oracle = <<>>

\* The numbers of type ty that a start bound, and an end bound, admit.
\* (No number lies above MAX or below MIN.)
AdmittedByStart(ty, b) ==
    CASE b.kind = "Included" -> b.at..MaxOf(ty)
      [] b.kind = "Excluded" ->
            IF b.at = MaxOf(ty) THEN {} ELSE (b.at + 1)..MaxOf(ty)
      [] b.kind = "Unbounded" -> MinOf(ty)..MaxOf(ty)
AdmittedByEnd(ty, b) ==
    CASE b.kind = "Included" -> MinOf(ty)..b.at
      [] b.kind = "Excluded" ->
            IF b.at = MinOf(ty) THEN {} ELSE MinOf(ty)..(b.at - 1)
      [] b.kind = "Unbounded" -> MinOf(ty)..MaxOf(ty)

\* C9 (SpecNum): v.in_range(range) is Some(v) iff v satisfies both bounds
\* of the range, and None otherwise: 5 and not 15 is in 0..10, and 10 is in
\* 0..=10 and not in 0..10.
C9_InRange ==
    LET ty == num.ty
        v == num.v
        range == last.arg
        within == /\ v \in AdmittedByStart(ty, range.start)
                  /\ v \in AdmittedByEnd(ty, range.end)
    IN  last.op = "in_range" =>
            /\ last.ret = (IF within THEN Some(v) ELSE None)
            /\ range = [start |-> Included(0), end |-> Excluded(10)] =>
                  /\ v = 5 => last.ret = Some(5)
                  /\ v \in {10, 15} => last.ret = None
            /\ range = [start |-> Included(0), end |-> Included(10)] =>
                  (v = 10 => last.ret = Some(10))

\* 10.in_range(0..10)
C9_Witness ==
    /\ last.op = "in_range"
    /\ num.v = 10
    /\ last.arg = [start |-> Included(0), end |-> Excluded(10)]
    /\ last.ret = None

\* An update of None leaves it None, calls nothing and returns None.
C10_UpdateOfNone ==
    last.op = "update" /\ last.pre = None =>
        opt = None /\ last.calls = 0 /\ last.ret = None

\* A step keeps a present option present, changes the value held only by an
\* update that called its updater, and, made by one of the populate methods,
\* leaves a present option as it was.
C10_Step ==
    /\ opt.tag = "Some" => opt'.tag = "Some"
    /\ opt.tag = "Some" /\ opt' # opt => last'.op = "update" /\ last'.calls = 1
    /\ last'.op \in {"populate", "populate_with", "populate_default"}
          /\ opt.tag = "Some" => opt' = opt

\* C10 (SpecOpt): over any sequence of populate, populate_with,
\* populate_default and update calls, a present option stays present, only
\* an update that calls its updater changes the value held, and an update
\* of None leaves it None, calls nothing and returns None.
C10_Presence == []C10_UpdateOfNone /\ [][C10_Step]_vars

\* an update that changed the value of a present option
C10_Witness ==
    /\ last.op = "update"
    /\ last.pre.tag = "Some"
    /\ opt.tag = "Some"
    /\ opt # last.pre

====
